---- MODULE Spec2Model ----
(***************************************************************************)
(* Model of frequenz.channels.select.Select: one asyncio task per          *)
(* registered async iterator, a slot per name holding at most one          *)
(* unclaimed _Selected result, and the two counters that drive the         *)
(* "claim it or lose it" logic of Select.ready().                          *)
(***************************************************************************)
EXTENDS Integers, Sequences, FiniteSets, TLC

\* ---------------------------------------------------------------- bounds
\* Longest stream (number of produced items) of one async iterator.
MaxLen == 2
\* Cap of the history counter `streak`.
MaxStreak == 3

\* ------------------------------------------------------------- constants
\* Names that may be passed as keyword arguments to Select(...).
Names == {"a", "b"}
\* A name that is never registered (used for attribute lookups that miss).
Unregistered == "zz"
\* Python's None as the payload of a message / the `inner` of _Selected.
NoneV == 0

\* The i-th item of a stream is either the distinct value i or None, and a
\* stream holds at most one None.
Streams == UNION {[1..k -> 0..MaxLen] : k \in 0..MaxLen}
IsStream(s) ==
    /\ \A i \in 1..Len(s) : s[i] \in {i, NoneV}
    /\ \A i, j \in 1..Len(s) : (s[i] = NoneV /\ s[j] = NoneV) => i = j
\* How a stream ends: StopAsyncIteration, or some other exception.
Endings == {"stop", "fault"}
\* Shapes of consumer: unconstrained, or the if-chain that reads only "a".
Modes == {"free", "xonly"}

\* _result[name] is None
Empty == [kind |-> "none"]
\* _result[name] is _Selected(v)
Selected(v) == [kind |-> "selected", inner |-> v]
\* The outcome of an attribute lookup that raised KeyError.
KeyError == [kind |-> "KeyError"]
\* No ready() call is suspended.
NoCall == [kind |-> "nocall"]

VARIABLES
    receivers,          \* names registered at construction (keys of _receivers)
    script,             \* per name: the items its iterator will produce
    ending,             \* per name: how its iterator ends
    mode,               \* shape of the consumer
    pos,                \* per name: items handed out so far (Len+1: ended)
    issued,             \* per name: number of __anext__ tasks created
    tasks,              \* live asyncio tasks: id -> [name, st, val]
    pending,            \* self._pending: set of task ids
    result,             \* self._result
    ready_count,        \* self._ready_count
    prev_ready_count,   \* self._prev_ready_count
    pc,                 \* "idle", "waiting" (inside asyncio.wait), "dead"
    op,                 \* last consumer operation
    ret,                \* outcome of the last ready() call
    got,                \* outcome of the last attribute lookup
    dropped,            \* names in the warning of the last ready() call
    claimed,            \* per name: inner of every _Selected handed out (kept
                        \* as long as `strict` holds)
    strict,             \* every ready() so far was entered with all slots None
    exhausted,          \* names whose StopAsyncIteration was stored in a slot
    waited,             \* the last ready() call suspended in asyncio.wait
    streak,             \* consecutive ready() calls that returned True at once
    fetched,            \* slots handed out by the lookups that followed the
                        \* ready() call before the last consumer operation
    before              \* while ready() is suspended: the slots, the ready
                        \* count and _pending as they were when it was called

env == <<receivers, script, ending, mode>>
hist == <<op, ret, got, dropped, claimed, strict, exhausted, waited, streak,
          fetched, before>>
vars == <<receivers, script, ending, mode, pos, issued, tasks, pending,
          result, ready_count, prev_ready_count, pc, op, ret, got,
          dropped, claimed, strict, exhausted, waited, streak, fetched,
          before>>

\* ------------------------------------------------------------- helpers
Holding(res) == {n \in DOMAIN res : res[n] # Empty}

\* Tasks among `ids` that have completed (t.done()).
Done(ts, ids) == {id \in ids : ts[id].st # "running"}

\* asyncio.create_task(recv.__anext__(), name=name)
NewTask(name) == [name |-> name, st |-> "running", val |-> NoneV]

Perms(S) == {f \in [1..Cardinality(S) -> S] :
                \A i, j \in 1..Cardinality(S) : i # j => f[i] # f[j]}

\* ---------------------------------------------------------------- Init
\* Select.__init__: one task per receiver, counters 0, every slot None.
InitWith(m) ==
    /\ receivers \in SUBSET Names
    /\ script \in [receivers -> Streams]
    /\ \A n \in receivers : IsStream(script[n])
    /\ ending \in [receivers -> Endings]
    /\ mode = m
    /\ mode = "xonly" => receivers = Names
    /\ pos = [n \in receivers |-> 0]
    /\ issued = [n \in receivers |-> 1]
    /\ tasks = [id \in {<<n, 1>> : n \in receivers} |-> NewTask(id[1])]
    /\ pending = {<<n, 1>> : n \in receivers}
    /\ ready_count = 0
    /\ prev_ready_count = 0
    /\ result = [n \in receivers |-> Empty]
    /\ pc = "idle"
    /\ op = "init"
    /\ ret = "none"
    /\ got = Empty
    /\ dropped = {}
    /\ claimed = [n \in receivers |-> <<>>]
    /\ strict = TRUE
    /\ exhausted = {}
    /\ waited = FALSE
    /\ streak = 0
    /\ fetched = 0
    /\ before = NoCall

\* Any consumer.
Init == InitWith("free")
\* The consumer whose if-chain reads "a" and never "b".
InitXOnly == InitWith("xonly")

\* ------------------------------------------------------- the iterators
\* A running __anext__ task completes: with the next item of the stream,
\* with the stream's ending, or (a finished iterator) StopAsyncIteration.
Complete(id) ==
    /\ pc # "dead"
    /\ id \in DOMAIN tasks
    /\ tasks[id].st = "running"
    /\ LET n == tasks[id].name
           k == pos[n]
       IN  /\ IF k < Len(script[n])
                 THEN tasks' = [tasks EXCEPT ![id] =
                                  [@ EXCEPT !.st = "value", !.val = script[n][k + 1]]]
                 ELSE IF k = Len(script[n]) /\ ending[n] = "fault"
                 THEN tasks' = [tasks EXCEPT ![id] = [@ EXCEPT !.st = "fault"]]
                 ELSE tasks' = [tasks EXCEPT ![id] = [@ EXCEPT !.st = "stop"]]
           /\ pos' = [pos EXCEPT ![n] = IF k <= Len(script[n]) THEN k + 1 ELSE k]
    /\ UNCHANGED <<env, issued, pending, result, ready_count,
                   prev_ready_count, pc, hist>>

\* ------------------------------------------------------- Select.ready()
\* (variant: `>= 0`)
HasReady_M(rc) == rc >= 0

\* (variant: `> 1`)
HasReady_M2(rc) == rc > 1

\* `if self._ready_count > 0`
HasReady(rc) == rc > 0

\* (variant: the comparison inverted)
StaleBatch_M(rc, prc) == rc # prc

\* `if self._ready_count == self._prev_ready_count`
StaleBatch(rc, prc) == rc = prc

\* (variant: `isinstance(item.exception(), Exception)`)
IsStopAsyncIteration_M(item) == item.st \in {"stop", "fault"}

\* `isinstance(item.exception(), StopAsyncIteration)`
IsStopAsyncIteration(item) == item.st = "stop"

\* (variant: the check is missing, a new task is always created)
IsClosed_M(r) == FALSE

\* `if result is None: continue`
IsClosed(r) == r = NoneV

\* (variant: the count is incremented only for a message)
Incremented_M(rc, r) == IF r = NoneV THEN rc ELSE rc + 1

\* `self._ready_count += 1`
Incremented(rc, r) == rc + 1

\* (variant: `if len(self._receivers) == 0`)
NothingPending_M(pend) == receivers = {}

\* `if len(self._pending) == 0`
NothingPending(pend) == Cardinality(pend) = 0

\* (variant: without the `if value is not None`)
DroppedNames_M(res) == DOMAIN res

\* The names collected in dropped_names: every slot that is not None.
DroppedNames(res) == {n \in DOMAIN res : res[n] # Empty}

\* (variant: only the counters are reset)
AllNone_M(res) == res

\* The loop of lines 99-102: every slot that is not None becomes None.
AllNone(res) == [n \in DOMAIN res |-> Empty]

\* What the consumer may do next, by shape of consumer.  The "xonly"
\* consumer is `while await select.ready(): if msg := select.a: ...`.
MayCallReady ==
    mode = "xonly" => ~(op = "ready" /\ ret \in {"true", "false"})
MayClaim(n) ==
    mode = "xonly" => (n = "a" /\ op = "ready" /\ ret = "true")
MayDelete ==
    mode = "xonly" => (op = "ready" /\ ret = "false")

\* ready() from its entry up to a return or to the await of asyncio.wait.
ReadyCall ==
    /\ pc = "idle"
    /\ MayCallReady
    /\ op' = "ready"
    /\ strict' = (strict /\ Holding(result) = {})
    /\ claimed' = IF strict' THEN claimed ELSE [n \in receivers |-> <<>>]
    /\ IF HasReady(ready_count) /\ ~StaleBatch(ready_count, prev_ready_count)
          THEN /\ prev_ready_count' = ready_count
               /\ ret' = "true"
               /\ dropped' = {}
               /\ waited' = FALSE
               /\ streak' = IF streak < MaxStreak THEN streak + 1 ELSE streak
               /\ UNCHANGED <<result, ready_count, pc, before>>
          ELSE LET drop == HasReady(ready_count)
               IN  /\ dropped' = IF drop THEN DroppedNames(result) ELSE {}
                   /\ result' = IF drop THEN AllNone(result) ELSE result
                   /\ ready_count' = IF drop THEN 0 ELSE ready_count
                   /\ streak' = 0
                   /\ IF NothingPending(pending)
                         THEN /\ ret' = "false"
                              /\ waited' = FALSE
                              /\ prev_ready_count' =
                                    IF drop THEN 0 ELSE prev_ready_count
                              /\ pc' = "idle"
                              /\ UNCHANGED before
                         ELSE /\ ret' = "blocked"
                              /\ before' = [result |-> result,
                                            ready_count |-> ready_count,
                                            pending |-> pending]
                              /\ waited' = TRUE
                              /\ prev_ready_count' = 0
                              /\ pc' = "waiting"
    /\ fetched' = IF op = "claim" THEN fetched ELSE 0
    /\ UNCHANGED <<env, pos, issued, tasks, pending, got, exhausted>>

\* One iteration of `for item in done` on the state s of the loop.
ProcessItem(s, id) ==
    LET item == tasks[id]
        name == item.name
    IN  IF ~IsStopAsyncIteration(item) /\ item.st = "fault"
           THEN [s EXCEPT !.raised = TRUE]
           ELSE LET r  == IF IsStopAsyncIteration(item) THEN NoneV ELSE item.val
                    s1 == [s EXCEPT !.ready_count = Incremented(@, r),
                                    !.result[name] = Selected(r),
                                    !.exhausted = IF item.st = "stop"
                                                     THEN @ \cup {name} ELSE @]
                    nid == <<name, s.issued[name] + 1>>
                IN  IF IsClosed(r)
                       THEN s1
                       ELSE [s1 EXCEPT !.tasks = (nid :> NewTask(name)) @@ @,
                                       !.pending = @ \cup {nid},
                                       !.issued[name] = @ + 1]

\* The loop over `done`, in iteration order `order`; it stops at a raise.
RECURSIVE ProcessDone(_, _)
ProcessDone(order, s) ==
    IF order = <<>> \/ s.raised
       THEN s
       ELSE ProcessDone(Tail(order), ProcessItem(s, Head(order)))

\* asyncio.wait returns: `done` is every completed task of _pending, the
\* rest stays in _pending; then the loop over done runs to a return/raise.
ReadyWake ==
    /\ pc = "waiting"
    /\ LET done == Done(tasks, pending)
       IN  /\ done # {}
           /\ \E order \in Perms(done) :
                LET s0 == [result |-> result, ready_count |-> ready_count,
                           pending |-> pending \ done,
                           tasks |-> [id \in DOMAIN tasks \ done |-> tasks[id]],
                           issued |-> issued, exhausted |-> exhausted,
                           raised |-> FALSE]
                    s  == ProcessDone(order, s0)
                IN  /\ result' = s.result
                    /\ ready_count' = s.ready_count
                    /\ pending' = s.pending
                    /\ tasks' = s.tasks
                    /\ issued' = s.issued
                    /\ exhausted' = s.exhausted
                    /\ ret' = IF s.raised THEN "raise" ELSE "true"
    /\ pc' = "idle"
    /\ op' = "ready"
    /\ before' = NoCall
    /\ fetched' = 0
    /\ UNCHANGED <<env, pos, prev_ready_count, got, dropped, claimed,
                   strict, waited, streak>>

\* (variant: the wait cancels the tasks it was waiting for)
AfterCancel_M(ts, pend) ==
    [id \in DOMAIN ts |->
        IF id \in pend /\ ts[id].st = "running"
           THEN [ts[id] EXCEPT !.st = "cancelled"]
           ELSE ts[id]]

\* The tasks after asyncio.wait was cancelled: it leaves them alone.
AfterCancel(ts, pend) == ts

\* The caller abandons a blocked ready() (task cancellation / timeout): the
\* assignment of line 120 does not happen.
ReadyCancel ==
    /\ pc = "waiting"
    /\ pc' = "idle"
    /\ ret' = "cancelled"
    /\ tasks' = AfterCancel(tasks, pending)
    /\ before' = NoCall
    /\ fetched' = 0
    /\ UNCHANGED <<env, pos, issued, pending, result, ready_count,
                   prev_ready_count, got, dropped, claimed, strict,
                   exhausted, waited, streak>>
    /\ op' = "ready"

\* --------------------------------------------------- Select.__getattr__
\* (variant: `self._result.get(name)`)
Lookup_M(res, name) == IF name \in DOMAIN res THEN res[name] ELSE Empty

\* `self._result[name]`
Lookup(res, name) == IF name \in DOMAIN res THEN res[name] ELSE KeyError

\* (variant: the slot is not reset)
Cleared_M(res, name) == res

\* `self._result[name] = None`
Cleared(res, name) == [res EXCEPT ![name] = Empty]

Getattr(name) ==
    /\ pc \in {"idle", "waiting"}
    /\ MayClaim(name)
    /\ op' = "claim"
    /\ LET r == Lookup(result, name)
           f == IF op = "claim" THEN fetched ELSE 0
       IN  /\ got' = r
           /\ IF r = KeyError \/ r = Empty
                 THEN /\ fetched' = f
                      /\ UNCHANGED <<result, ready_count, claimed>>
                 ELSE /\ fetched' = f + 1
                      /\ result' = Cleared(result, name)
                      /\ ready_count' = ready_count - 1
                      /\ claimed' = IF strict
                                       THEN [claimed EXCEPT
                                               ![name] = Append(@, r.inner)]
                                       ELSE claimed
    /\ UNCHANGED <<env, pos, issued, tasks, pending, prev_ready_count, pc,
                   ret, dropped, strict, exhausted, waited, streak, before>>

\* ------------------------------------------------------- Select.__del__
\* (variant: no task is cancelled)
CancelPending_M(ts, pend) == ts

\* task.cancel() for every task of _pending (no effect on a finished one).
CancelPending(ts, pend) ==
    [id \in DOMAIN ts |->
        IF id \in pend /\ ts[id].st = "running"
           THEN [ts[id] EXCEPT !.st = "cancelled"]
           ELSE ts[id]]

Delete ==
    /\ pc \in {"idle", "waiting"}
    /\ MayDelete
    /\ tasks' = CancelPending(tasks, pending)
    /\ pc' = "dead"
    /\ op' = "del"
    /\ UNCHANGED <<env, pos, issued, pending, result, ready_count,
                   prev_ready_count, ret, got, dropped, claimed, strict,
                   exhausted, waited, streak, fetched, before>>

\* ---------------------------------------------------------------- Next
Next ==
    \/ \E id \in DOMAIN tasks : Complete(id)
    \/ ReadyCall
    \/ ReadyWake
    \/ ReadyCancel
    \/ \E name \in Names \cup {Unregistered} : Getattr(name)
    \/ Delete

Spec == Init /\ [][Next]_vars

\* ------------------------------------------------------------ properties
\* The payloads of a sequence of items that are not None.
Values(seq) == SelectSeq(seq, LAMBDA v : v # NoneV)

\* The consumer's loop has ended: the last ready() returned False.
LoopEnded == op = "ready" /\ ret = "false"

\* No iterator ends with an exception other than StopAsyncIteration.
NoFaults == \A n \in receivers : ending[n] = "stop"

\* C1: when the consumer claims every holding slot after each ready() that
\* returns True, then once ready() returns False the values claimed from each
\* source are exactly the values that source sends, each once, in its order.
C1_AllSentClaimedInOrder ==
    (strict /\ NoFaults /\ LoopEnded)
        => \A n \in receivers : Values(claimed[n]) = Values(script[n])

\* C5: under the same discipline, once ready() returns False every source has
\* handed out all of its values followed by exactly one exhaustion marker.
C5_MarkerOnceAfterValues ==
    (strict /\ NoFaults /\ LoopEnded)
        => \A n \in receivers : claimed[n] = Append(Values(script[n]), NoneV)

\* The core state of the Select object.
core == <<tasks, pending, result, ready_count, prev_ready_count, issued>>

\* The last ready() call has just returned True and nothing was looked up
\* since.
JustReturnedTrue == op = "ready" /\ ret = "true" /\ pc = "idle"

\* The ready() step drops every holding slot and does not return True.
Discards ==
    /\ dropped' = Holding(result)
    /\ result' = [n \in receivers |-> Empty]
    /\ ready_count' = 0
    /\ prev_ready_count' = 0
    /\ ret' \in {"false", "blocked"}

\* C2 (as stated): a ready() that follows a ready() which returned True, with
\* no attribute lookup in between, discards exactly the holding slots.
C2_SecondCallDiscards ==
    [][(ReadyCall /\ JustReturnedTrue) => Discards]_vars

\* C2 (amended): such a ready() discards exactly the holding slots when the
\* previous ready() returned True at once; when the previous ready() returned
\* True from asyncio.wait it returns True at once and discards nothing.
C2_ThirdCallDiscards ==
    [][(ReadyCall /\ JustReturnedTrue) =>
          IF waited
             THEN /\ ret' = "true"
                  /\ dropped' = {}
                  /\ ~waited'
                  /\ UNCHANGED <<result, ready_count, pending, tasks>>
             ELSE Discards]_vars

C2_Witness ==
    /\ op = "ready"
    /\ dropped # {}
    /\ ret = "blocked"
    /\ Holding(result) = {}

\* C3: once the StopAsyncIteration of every receiver was stored and every slot
\* is None again, each ready() returns False at once and changes nothing; with
\* no receivers this holds from construction on.
C3_TerminalFalse ==
    [][(ReadyCall /\ exhausted = receivers /\ Holding(result) = {}) =>
          (ret' = "false" /\ pc' = "idle" /\ UNCHANGED core)]_vars

C3_Witness ==
    /\ receivers = Names
    /\ exhausted = receivers
    /\ LoopEnded
    /\ got.kind = "selected"
    /\ \A n \in receivers : Len(script[n]) = MaxLen

\* The completed tasks of _pending that hold another exception than
\* StopAsyncIteration.
Faulted == {id \in Done(tasks, pending) : tasks[id].st = "fault"}

\* C4: a wake-up of ready() that finds a task failed with another exception
\* than StopAsyncIteration raises, leaves the slot of every failed task None,
\* records no exhaustion for it and counts only the slots it filled.
C4_FaultRaised ==
    [][(ReadyWake /\ Faulted # {}) =>
          /\ ret' = "raise"
          /\ \A id \in Faulted : /\ result'[id[1]] = Empty
                                 /\ id[1] \notin exhausted'
          /\ ready_count' = Cardinality(Holding(result'))]_vars

C4_Witness ==
    /\ op = "ready"
    /\ ret = "raise"
    /\ \E n \in receivers : ending[n] = "fault" /\ pos[n] = Len(script[n]) + 1

\* C7: a lookup of a name that is not a receiver raises KeyError and leaves
\* the slots, both counters and the pending set as they were.
C7_UnregisteredKeyError ==
    [][\A name \in (Names \cup {Unregistered}) \ receivers :
          Getattr(name) => (got' = KeyError /\ UNCHANGED core)]_vars

C7_Witness ==
    /\ op = "claim"
    /\ got = KeyError
    /\ Holding(result) # {}

\* C8: a lookup of a receiver's name returns the slot; a holding slot becomes
\* None and the ready count drops by one, nothing else changes; a slot that
\* is None yields None and changes nothing.
C8_ClaimOnce ==
    [][\A name \in receivers :
          Getattr(name) =>
             /\ got' = result[name]
             /\ result'[name] = Empty
             /\ \A n \in receivers \ {name} : result'[n] = result[n]
             /\ ready_count' = IF result[name] # Empty THEN ready_count - 1
                                                       ELSE ready_count
             /\ UNCHANGED <<pending, tasks, prev_ready_count, issued>>]_vars

C8_Witness ==
    /\ op = "claim"
    /\ got.kind = "selected"
    /\ ready_count = 1

C10_NoTaskLeftRunning ==
    pc = "dead" => \A id \in DOMAIN tasks : tasks[id].st # "running"

C10_Witness ==
    /\ pc = "dead"
    /\ ret = "blocked"
    /\ \E id \in DOMAIN tasks : tasks[id].st = "cancelled"

\* ------------------------------------------- the consumer that reads only "a"
SpecXOnly ==
    /\ InitXOnly
    /\ [][Next]_vars
    /\ WF_vars(ReadyCall)
    /\ WF_vars(Getattr("a"))

\* C6: the consumer that looks up "a" after every True and never "b" loses no
\* result of "a", gets every result of "b" dropped with a warning naming "b",
\* and sees at most as many Trues in a row without a wait as there are
\* receivers.
C6_OnlyUnreadDropped ==
    /\ []("a" \notin dropped)
    /\ [](streak <= Cardinality(receivers))
    /\ (result["b"] # Empty) ~> ("b" \in dropped)

C6_Witness ==
    /\ mode = "xonly"
    /\ "b" \in dropped
    /\ got.kind = "selected"
    /\ pos["a"] > 1

\* ------------------------------------------------- tasks, slots, counters
\* The tasks of _pending created for receiver n.
PendingOf(n) == {id \in pending : id[1] = n}

\* The iterator of n has raised StopAsyncIteration or another exception.
Ended(n) == pos[n] > Len(script[n])

\* What the loop stores for a completed task that holds no other exception.
Stored(item) == Selected(IF item.st = "stop" THEN NoneV ELSE item.val)

\* C11: outside of the loop over `done`, every receiver whose
\* StopAsyncIteration was not stored has exactly one task in _pending (a
\* message, whatever its value, always gets a new task).
C11_OnePullUnlessExhausted ==
    (NoFaults /\ pc # "dead")
        => \A n \in receivers \ exhausted : Cardinality(PendingOf(n)) = 1

\* C12: _pending never holds two tasks of one receiver, holds none for a
\* receiver whose StopAsyncIteration was stored, and no task is running for
\* an iterator that has ended.
C12_AtMostOnePull ==
    \A n \in receivers :
        /\ Cardinality(PendingOf(n)) <= 1
        /\ n \in exhausted => PendingOf(n) = {}
        /\ \A id \in DOMAIN tasks :
              (id[1] = n /\ tasks[id].st = "running") => ~Ended(n)

C12_Witness ==
    \E n, m \in receivers :
        /\ n \in exhausted
        /\ m \notin exhausted
        /\ issued[m] > 1
        /\ \E id \in PendingOf(m) : tasks[id].st = "running"

\* C13: every task that a wake-up of ready() takes out of _pending has its
\* result stored in the slot of its receiver, or holds an exception and the
\* call raises.
C13_NoResultLost ==
    [][ReadyWake =>
          \A id \in Done(tasks, pending) :
             \/ tasks[id].st = "fault" /\ ret' = "raise"
             \/ tasks[id].st # "fault" /\ result'[id[1]] = Stored(tasks[id])]_vars

\* C14: the ready count is the number of slots that are not None.
C14_CountIsHolding ==
    /\ ready_count = Cardinality(Holding(result))
    /\ ready_count >= 0
    /\ ready_count <= Cardinality(receivers)

C14_Witness ==
    /\ op = "ready"
    /\ ret = "raise"
    /\ ready_count = 1
    /\ dropped # {}

\* The receivers whose task completed in this wake-up.
Woken == {id[1] : id \in Done(tasks, pending)}

\* C15: a ready() that drops a stale batch leaves every slot None and both
\* counters 0, returns False when _pending is empty and suspends otherwise;
\* the slots that hold a result after a wake-up belong to the tasks that
\* completed in it.
C15_DiscardThenFreshWait ==
    /\ [][(ReadyCall /\ dropped' # {}) =>
             /\ Holding(result') = {}
             /\ ready_count' = 0
             /\ prev_ready_count' = 0
             /\ ret' = IF pending = {} THEN "false" ELSE "blocked"
             /\ pc' = IF pending = {} THEN "idle" ELSE "waiting"]_vars
    /\ [][ReadyWake => Holding(result') \subseteq Woken]_vars

C15_Witness ==
    /\ JustReturnedTrue
    /\ waited
    /\ dropped # {}
    /\ Holding(result) # {}

\* C16: a ready() that is called after a lookup handed out a slot since the
\* previous ready() drops nothing and logs no warning.
C16_NoDiscardAfterClaim ==
    [][(ReadyCall /\ op = "claim" /\ fetched > 0) =>
          (dropped' = {} /\ result' = result /\ ready_count' = ready_count)]_vars

C16_Witness ==
    /\ op = "ready"
    /\ fetched = 2
    /\ dropped = {}
    /\ ret = "blocked"

\* C17: after exactly one slot was handed out since the previous ready() and
\* while another slot still holds a result, ready() returns True at once,
\* drops nothing and leaves slots, ready count, _pending and tasks alone.
C17_DrainOneAtATime ==
    [][(ReadyCall /\ op = "claim" /\ fetched = 1 /\ Holding(result) # {}) =>
          /\ ret' = "true"
          /\ pc' = "idle"
          /\ ~waited'
          /\ dropped' = {}
          /\ prev_ready_count' = ready_count
          /\ UNCHANGED <<result, ready_count, pending, tasks, issued>>]_vars

C17_Witness ==
    /\ JustReturnedTrue
    /\ ~waited
    /\ fetched = 1
    /\ Cardinality(Holding(result)) = 1
    /\ got.kind = "selected"

\* C18: ready() suspends only with every slot None and the ready count 0; a
\* wake-up writes only into slots that are None; a slot that holds a result
\* changes only by a lookup of its name or by a drop that names it.
C18_NoOverwrite ==
    /\ [](pc = "waiting" => (Holding(result) = {} /\ ready_count = 0))
    /\ [][ReadyWake => \A n \in Woken : result[n] = Empty]_vars
    /\ [][\A n \in receivers :
            (result[n] # Empty /\ result'[n] # result[n]) =>
               \/ Getattr(n)
               \/ ReadyCall /\ n \in dropped']_vars

C18_Witness ==
    \E n \in Holding(result) :
        \E id \in PendingOf(n) : tasks[id].st = "value"

\* The last ready() call was abandoned while suspended.
JustCancelled == op = "ready" /\ ret = "cancelled" /\ pc = "idle"

\* C19 (as stated): after a suspended ready() is abandoned, _pending, the
\* slots and the ready count are as they were before the call and the tasks
\* are untouched.
C19_CancelRestoresAll ==
    [][ReadyCancel =>
          /\ pending' = before.pending
          /\ result' = before.result
          /\ ready_count' = before.ready_count
          /\ tasks' = tasks
          /\ issued' = issued]_vars

\* C19 (amended): _pending is as before the call and the tasks are untouched;
\* slots and ready count are as they were when the call suspended, which is
\* as before the call unless the call first dropped a stale batch; every
\* task, completed or not, is still in _pending and the next ready() waits on
\* it; under the claim-everything discipline nothing is lost or duplicated.
C19_CancelKeepsPulls ==
    /\ [][ReadyCancel =>
             /\ pending' = before.pending
             /\ tasks' = tasks
             /\ issued' = issued
             /\ result' = result
             /\ ready_count' = ready_count
             /\ IF dropped = {}
                   THEN /\ result' = before.result
                        /\ ready_count' = before.ready_count
                   ELSE /\ Holding(before.result) = dropped
                        /\ Holding(result') = {}
                        /\ ready_count' = 0]_vars
    /\ [](JustCancelled => (DOMAIN tasks = pending /\ Holding(result) = {}))
    /\ [][(ReadyCall /\ JustCancelled /\ pending # {}) =>
             (pc' = "waiting" /\ pending' = pending /\ dropped' = {})]_vars
    /\ []((strict /\ NoFaults /\ LoopEnded
             /\ \A n \in receivers : Values(script[n]) = script[n])
           => \A n \in receivers : Values(claimed[n]) = script[n])

C19_Witness ==
    /\ JustCancelled
    /\ \E id \in pending : tasks[id].st = "value"
    /\ \E n \in receivers : pos[n] > 1
====
